---- MODULE Spec2Model ----
(***************************************************************************)
(* Verification model of the Stone Soup particle updaters                  *)
(* (stonesoup/updater/particle.py).                                        *)
(*                                                                         *)
(*   SpecPU     ParticleUpdater.update, one statement group per action     *)
(*   SpecGF     GromovFlowParticleUpdater.update and                       *)
(*              GromovFlowKalmanParticleUpdater.update                     *)
(*   SpecCache  the lru_cache around predict_measurement, one caller       *)
(*   SpecConc   the same cache with several calling threads                *)
(*                                                                         *)
(* Numbers.  State vectors are one-dimensional integers.  A log-domain     *)
(* float is modelled by the exact non-negative rational it is the          *)
(* logarithm of, together with the IEEE special values -inf (log 0),       *)
(* +inf and NaN; rounding is not modelled.                                 *)
(***************************************************************************)
EXTENDS Integers, Sequences, FiniteSets, TLC

\* ---------------------------------------------------------------- bounds
MaxParticles == 2       \* particles in a prediction: 1..MaxParticles
WeightDen    == 2       \* prior weights are k/WeightDen, summing to 1
MaxLik       == 2       \* logpdf returns log(b), b in 0..MaxLik (log 0 = -inf)
MaxState     == 1       \* particle positions range over 0..MaxState
MaxCalls     == 2       \* update calls made on the same prediction
MaxFillers   == 129     \* distinct filler keys passed to predict_measurement
NThreads     == 2       \* threads calling predict_measurement
MaxFrames    == 2       \* frames the video source delivers before it ends
MaxBuffer    == 2       \* largest buffer_size tried
MaxBlank     == 1       \* blank frames buffered after the video ran out
MaxReads     == 2       \* FreshestFrame.read calls made

None == "None"

\* ------------------------------------------------- log-domain arithmetic
RECURSIVE GCD(_, _)
GCD(a, b) == IF b = 0 THEN a ELSE GCD(b, a % b)

NegInf == [k |-> "ninf", n |-> 0, d |-> 1]
PosInf == [k |-> "pinf", n |-> 0, d |-> 1]
NaN    == [k |-> "nan",  n |-> 0, d |-> 1]
\* the float log(n/d) for n, d > 0
Fin(n, d) == [k |-> "fin", n |-> n \div GCD(n, d), d |-> d \div GCD(n, d)]
\* math.log / np.log of the linear value n/d >= 0
LogOf(n, d) == IF n = 0 THEN NegInf ELSE Fin(n, d)

\* x + y on floats holding logarithms
LogAdd(x, y) ==
    IF x.k = "nan" \/ y.k = "nan" THEN NaN
    ELSE IF {x.k, y.k} = {"pinf", "ninf"} THEN NaN
    ELSE IF "pinf" \in {x.k, y.k} THEN PosInf
    ELSE IF "ninf" \in {x.k, y.k} THEN NegInf
    ELSE Fin(x.n * y.n, x.d * y.d)

\* -x
LogNeg(x) ==
    CASE x.k = "nan"  -> NaN
      [] x.k = "pinf" -> NegInf
      [] x.k = "ninf" -> PosInf
      [] OTHER        -> Fin(x.d, x.n)

\* x - y
LogSub(x, y) == LogAdd(x, LogNeg(y))

\* exact sum of the linear values of a[1..i], as <<numerator, denominator>>
RECURSIVE SumLin(_, _)
SumLin(a, i) ==
    IF i = 0 THEN <<0, 1>>
    ELSE LET s == SumLin(a, i - 1)
             n == s[1] * a[i].d + a[i].n * s[2]
             d == s[2] * a[i].d
         IN  <<n \div GCD(n, d), d \div GCD(n, d)>>

\* scipy.special.logsumexp(a): log(sum(exp(a - a_max))) + a_max, where a
\* non-finite a_max is replaced by 0; all -inf gives log(0) = -inf
logsumexp(a) ==
    IF \E i \in DOMAIN a : a[i].k = "nan" THEN NaN
    ELSE IF \E i \in DOMAIN a : a[i].k = "pinf" THEN PosInf
    ELSE LogOf(SumLin(a, Len(a))[1], SumLin(a, Len(a))[2])

\* ------------------------------------------------------------ Probability
\* Probability keeps its value in the log domain
Probability_from_log(x) == [log_value |-> x]
\* Probability.from_log_ufunc: elementwise over an array of log values
from_log_ufunc(a) == [i \in DOMAIN a |-> Probability_from_log(a[i])]
\* np.log of an array of Probability: each element's log value
np_log(w) == [i \in DOMAIN w |-> w[i].log_value]
\* Probability(k/den)
Prob(n, d) == Probability_from_log(LogOf(n, d))


\* ------------------------------------------------------------------ state
VARIABLES
    \* --- ParticleUpdater.update
    heap,               \* ParticleState objects by identity: id -> fields
    hyp,                \* the caller's hypothesis (prediction is object 1)
    selfModel,          \* self.measurement_model
    resampler,          \* self.resampler
    pu_pc,              \* position inside update
    predicted_state,    \* local: reference to a ParticleState
    measurement_model,  \* local: the resolved model
    written,            \* the weights line 59 stored, <<>> before it ran
    lseFinite,          \* whether logsumexp(new_weight) was finite
    resampleLog,        \* resampler.resample calls of this update
    logpdfLog,          \* measurement_model.logpdf calls of this update
    result,             \* <<update>> once update returned, else <<>>
    pu_error,           \* exception that left update, or None
    calls,              \* update calls started
    pred0               \* the prediction's fields before the first call

puVars == <<heap, hyp, selfModel, resampler, pu_pc, predicted_state,
            measurement_model, written, lseFinite, resampleLog, logpdfLog,
            result, pu_error, calls, pred0>>

\* --- the lru_cache around predict_measurement
VARIABLES
    cache,              \* lru_cache entries, least recently used first
    pm_pc,              \* per thread: position inside a predict_measurement call
    pm_key,             \* per thread: the cache key of its call
    pm_prior,           \* per thread: distinct other keys called since the
                        \* previous call with its key (-1: never called)
    pm_result,          \* per thread: the MeasurementPrediction it built
    lastRet,            \* per thread: what its last finished call returned
    computations,       \* per key: executions of the function body so far
    recency,            \* every key ever called, least recently called first
    returned,           \* keys of which some call has returned
    pm_late,            \* per thread: its call began after one with its key returned
    fillers,            \* number of filler keys called so far
    defaultModel        \* per updater: self.measurement_model

cacheVars == <<cache, pm_pc, pm_key, pm_prior, pm_result, lastRet,
               computations, recency, returned, pm_late, fillers, defaultModel>>

\* --- GromovFlowParticleUpdater.update / GromovFlowKalmanParticleUpdater.update
VARIABLES
    g_kind,             \* "flow" or "kalman": the class of the updater
    g_heap,             \* Particle objects by identity: id -> fields
    g_pred,             \* hypothesis.prediction: particle ids and timestamp
    g_pred0,            \* the fields of the prediction's particles at the call
    g_hyps,             \* hypothesis objects by identity (1: the caller's)
    g_selfModel,        \* self.measurement_model
    g_caps,             \* what the resolved model offers: matrix, jacobian
    g_pc,               \* position inside update
    g_model,            \* local: measurement_model
    g_particles,        \* local: particles, a list of Particle ids
    g_i,                \* index of the particle being integrated
    g_n,                \* integration steps done for that particle
    g_x,                \* state vector of the integration's working copy
    g_trace,            \* counts: steps run, matrix() results, jacobian() calls
    g_particle_update,  \* <<result of GromovFlowParticleUpdater.update>>
    g_kalman_update,    \* <<result of kalman_updater.update>>
    g_result,           \* <<what update returned>>
    g_sched,            \* the schedule update computed: steps and time_steps
    g_error             \* exception that left update, or None

gfVars == <<g_kind, g_heap, g_pred, g_pred0, g_hyps, g_selfModel, g_caps,
            g_pc, g_model, g_particles, g_i, g_n, g_x, g_trace,
            g_particle_update, g_kalman_update, g_result, g_error, g_sched>>

VARIABLES
    \* --- FFmpegVideoStreamReader / OpenCVVideoStreamReader
    reader,             \* "ffmpeg", "opencv" (run_async=False) or "opencv_async"
    buffer_size,        \* self.buffer_size
    buffer,             \* self.buffer: the Queue's frames, oldest first
    colourTransform,    \* 'colourTransform' in self.output_opts
    reader_rate,        \* the OpenCV reader's force_frame_rate
    stream_left,        \* frames the stream has yet to deliver
    stream_open,        \* stream.poll() is None / stream.isOpened()
    run_pc,             \* the capture thread's position in _run
    run_frame,          \* the frame the capture thread is putting
    run_error,          \* exception that ended the capture thread, or None
    gen_pc,             \* the consumer's position in frames_gen
    handed,             \* frames passed to buffer.put so far, in order
    yielded,            \* frames frames_gen yielded so far, in order
    blanks              \* blank frames made after a failed conversion

readerVars == <<reader, buffer_size, buffer, colourTransform, reader_rate,
                stream_left, stream_open, run_pc, run_frame, run_error,
                gen_pc, handed, yielded, blanks>>

VARIABLES
    \* --- FreshestFrame
    force_frame_rate,   \* self.force_frame_rate
    running,            \* self.running
    latestnum,          \* self.latestnum
    frame,              \* self.frame: a frame, or None
    counter,            \* run's local counter
    capture_left,       \* frames the capture has yet to deliver
    img,                \* run's local (rv, img) of the last capture.read()
    ff_pc,              \* the thread's position in run
    ff_error,           \* exception that ended the thread, or None
    rd_pc,              \* the caller's position in read
    rd_args,            \* the arguments of its read call
    rd_seqnumber,       \* read's local seqnumber
    rd_latest0,         \* latestnum when read was called
    rd_latest1,         \* latestnum when read took the condition's lock
    rd_waited,          \* read released the lock to wait
    rd_ret,             \* what the last read returned, or <<>>
    reads               \* read calls made

ffVars == <<force_frame_rate, running, latestnum, frame, counter,
            capture_left, img, ff_pc, ff_error, rd_pc, rd_args,
            rd_seqnumber, rd_latest0, rd_latest1, rd_waited, rd_ret, reads>>

videoVars == <<readerVars, ffVars>>

vars == <<puVars, cacheVars, gfVars, videoVars>>

\* ------------------------------------------------------------ input sets
Updaters == {"pu", "gf"}    \* a ParticleUpdater and a GromovFlowParticleUpdater
Models == {"hm", "um"}      \* "hm": on the measurement, "um": the updater's
StateVals == 0..MaxState
\* the particles of a prediction: n neighbouring positions, starting anywhere
StateVectors(n) ==
    { [i \in 1..n |-> (i + o) % (MaxState + 1)] : o \in StateVals }

\* weight vectors k/WeightDen of length n that sum to 1
PriorWeights(n) ==
    { w \in [1..n -> 0..WeightDen] : SumLin([i \in 1..n |-> LogOf(w[i], WeightDen)], n)
                                       = <<1, 1>> }

\* what measurement_model.logpdf may return for n particles
LogLiks(n) == [1..n -> {LogOf(b, 1) : b \in 0..MaxLik}]

PredictionId == 1
NoHyp == [id |-> 0, prediction |-> 0,
          measurement |-> [timestamp |-> 0, measurement_model |-> None]]

\* ------------------------------------------------ ParticleUpdater.update
\* line 46: copy.copy gives a new object sharing the fields of the old one
NoCopyPrediction(h, src, fresh) == [heap |-> h, ref |-> src]
CopyPrediction(h, src, fresh) ==
    [heap |-> (fresh :> h[src]) @@ h, ref |-> fresh]

\* lines 48-51: the measurement's own model wins over the updater's
UpdaterModelFirst(meas, self_model) ==
    IF self_model = None THEN meas.measurement_model
    ELSE self_model
FallbackModel(meas, self_model) ==
    IF meas.measurement_model # None THEN meas.measurement_model
    ELSE IF self_model # None THEN self_model
    ELSE "um"
ResolveModel(meas, self_model) ==
    IF meas.measurement_model = None THEN self_model
    ELSE meas.measurement_model

\* lines 53-54: log prior weight plus log likelihood, per particle
NewWeight(weight, ll) ==
    [i \in DOMAIN weight |-> LogAdd(np_log(weight)[i], ll[i])]

\* line 57: new_weight -= logsumexp(new_weight)
Normalise(nw) == [i \in DOMAIN nw |-> LogSub(nw[i], logsumexp(nw))]

\* line 62
ResamplerAlways(r) == TRUE
ResamplerNever(r) == FALSE
ResamplerConfigured(r) == r # None

\* Resampler.resample: either hands its argument back, or returns a new
\* state holding the particles idx[1..n] of the argument (idx ascending, as
\* systematic resampling draws them), equally weighted
Resample(h, arg, fresh, idx) ==
    IF idx = <<>> THEN [heap |-> h, ref |-> arg]
    ELSE LET n == Len(h[arg].state_vector)
             new == [h[arg] EXCEPT
                        !.state_vector = [i \in 1..n |-> h[arg].state_vector[idx[i]]],
                        !.weight = [i \in 1..n |-> Prob(1, n)]]
         IN  [heap |-> (fresh :> new) @@ h, ref |-> fresh]

ResampleChoices(n) ==
    {<<>>} \cup { idx \in [1..n -> 1..n] :
                    \A i \in 1..(n - 1) : idx[i] <= idx[i + 1] }

\* lines 65-72: Update.from_state(state=hypothesis.prediction, ...)
ReturnedUpdate(h, hypothesis, ps) ==
    [state_vector |-> h[ps].state_vector,
     weight       |-> h[ps].weight,
     hypothesis   |-> hypothesis.id,
     timestamp    |-> hypothesis.measurement.timestamp]

Fresh(h) == Cardinality(DOMAIN h) + 1

\* an action of one component leaves the others alone
PUOnly == UNCHANGED <<cacheVars, gfVars, videoVars>>
CacheOnly == UNCHANGED <<puVars, gfVars, videoVars>>
GFOnly == UNCHANGED <<puVars, cacheVars, videoVars>>
ReaderOnly == UNCHANGED <<puVars, cacheVars, gfVars, ffVars>>
FFOnly == UNCHANGED <<puVars, cacheVars, gfVars, readerVars>>

\* ParticleUpdater at rest, for the specifications that do not run it
PUIdle ==
    /\ pred0 = [state_vector |-> <<0>>, weight |-> <<Prob(1, 1)>>, timestamp |-> 0]
    /\ heap = (PredictionId :> pred0)
    /\ selfModel = "um"
    /\ resampler = None
    /\ hyp = NoHyp
    /\ pu_pc = "off"
    /\ predicted_state = 0
    /\ measurement_model = None
    /\ written = <<>>
    /\ lseFinite = FALSE
    /\ resampleLog = <<>>
    /\ logpdfLog = <<>>
    /\ result = <<>>
    /\ pu_error = None
    /\ calls = 0

InitPUVars ==
    /\ \E n \in 1..MaxParticles :
         \E sv \in StateVectors(n), w \in PriorWeights(n) :
           /\ pred0 = [state_vector |-> sv,
                       weight |-> [i \in 1..n |-> Prob(w[i], WeightDen)],
                       timestamp |-> 0]
           /\ heap = (PredictionId :> pred0)
    /\ selfModel \in {None, "um"}
    /\ resampler \in {None, "resampler"}
    /\ hyp = NoHyp
    /\ pu_pc = "idle"
    /\ predicted_state = 0
    /\ measurement_model = None
    /\ written = <<>>
    /\ lseFinite = FALSE
    /\ resampleLog = <<>>
    /\ logpdfLog = <<>>
    /\ result = <<>>
    /\ pu_error = None
    /\ calls = 0

\* the caller builds a hypothesis on the prediction, with the k-th
\* measurement (taken at time k), and calls update
PU_Call ==
    /\ PUOnly
    /\ pu_pc \in {"idle", "raised"}
    /\ calls < MaxCalls
    /\ \E mm \in {None, "hm"} :
         hyp' = [id |-> calls + 1, prediction |-> PredictionId,
                 measurement |-> [timestamp |-> calls + 1,
                                  measurement_model |-> mm]]
    /\ calls' = calls + 1
    /\ heap' = (PredictionId :> heap[PredictionId])
    /\ pu_pc' = "copy"
    /\ predicted_state' = 0
    /\ measurement_model' = None
    /\ written' = <<>>
    /\ lseFinite' = FALSE
    /\ resampleLog' = <<>>
    /\ logpdfLog' = <<>>
    /\ result' = <<>>
    /\ pu_error' = None
    /\ UNCHANGED <<selfModel, resampler, pred0>>

\* line 46
PU_Copy ==
    /\ PUOnly
    /\ pu_pc = "copy"
    /\ LET c == CopyPrediction(heap, hyp.prediction, Fresh(heap))
       IN  heap' = c.heap /\ predicted_state' = c.ref
    /\ pu_pc' = "resolve"
    /\ UNCHANGED <<hyp, selfModel, resampler, measurement_model, written,
                   lseFinite, resampleLog, logpdfLog, result, pu_error,
                   calls, pred0>>

\* lines 48-51
PU_Resolve ==
    /\ PUOnly
    /\ pu_pc = "resolve"
    /\ measurement_model' = ResolveModel(hyp.measurement, selfModel)
    /\ pu_pc' = "weigh"
    /\ UNCHANGED <<heap, hyp, selfModel, resampler, predicted_state, written,
                   lseFinite, resampleLog, logpdfLog, result, pu_error,
                   calls, pred0>>

\* lines 53-59; with no model resolved, None.logpdf raises AttributeError
PU_Weigh ==
    /\ PUOnly
    /\ pu_pc = "weigh"
    /\ IF measurement_model = None
       THEN /\ pu_pc' = "raised"
            /\ pu_error' = "AttributeError"
            /\ UNCHANGED <<heap, written, lseFinite, logpdfLog>>
       ELSE \E ll \in LogLiks(Len(heap[predicted_state].weight)) :
              LET nw == NewWeight(heap[predicted_state].weight, ll)
                  w  == from_log_ufunc(Normalise(nw))
              IN  /\ heap' = [heap EXCEPT ![predicted_state].weight = w]
                  /\ written' = w
                  /\ lseFinite' = (logsumexp(nw).k = "fin")
                  /\ logpdfLog' = Append(logpdfLog,
                                         [model |-> measurement_model, ll |-> ll])
                  /\ pu_pc' = "resample"
                  /\ pu_error' = pu_error
    /\ UNCHANGED <<hyp, selfModel, resampler, predicted_state,
                   measurement_model, resampleLog, result, calls, pred0>>

\* lines 62-63
PU_Resample ==
    /\ PUOnly
    /\ pu_pc = "resample"
    /\ IF ResamplerConfigured(resampler)
       THEN \E idx \in ResampleChoices(Len(heap[predicted_state].weight)) :
              LET r == Resample(heap, predicted_state, Fresh(heap), idx)
              IN  /\ heap' = r.heap
                  /\ predicted_state' = r.ref
                  /\ resampleLog' = Append(resampleLog,
                        [arg |-> predicted_state,
                         argState |-> heap[predicted_state],
                         ret |-> r.ref,
                         retState |-> r.heap[r.ref]])
       ELSE UNCHANGED <<heap, predicted_state, resampleLog>>
    /\ pu_pc' = "return"
    /\ UNCHANGED <<hyp, selfModel, resampler, measurement_model, written,
                   lseFinite, logpdfLog, result, pu_error, calls, pred0>>

\* lines 65-72
PU_Return ==
    /\ PUOnly
    /\ pu_pc = "return"
    /\ result' = <<ReturnedUpdate(heap, hyp, predicted_state)>>
    /\ pu_pc' = "idle"
    /\ UNCHANGED <<heap, hyp, selfModel, resampler, predicted_state,
                   measurement_model, written, lseFinite, resampleLog,
                   logpdfLog, pu_error, calls, pred0>>

\* ------------------------------------- predict_measurement (lru_cache)
\* functools.lru_cache() is created with maxsize=128
CacheMaxSize == 128
Threads == 1..NThreads

\* A cache key is what lru_cache makes of the call's arguments:
\* <<self, state_prediction, measurement_model, how the model was passed>>.
\* predict_measurement(p) and predict_measurement(p, None) get different keys.
Key(self, pred, model, form) == <<self, pred, model, form>>
\* the (updater, state_prediction, measurement_model) combination of a call
Combination(k) == <<k[1], k[2], k[3]>>

K0 == Key("pu", 0, None, "omitted")
K1 == Key("pu", 0, "m1", "positional")
\* filler calls: prediction j is passed first as f(p), then as f(p, None),
\* on updaters that take turns
Filler(i) ==
    Key(IF ((i + 1) \div 2) % 2 = 0 THEN "pu" ELSE "gf", (i + 1) \div 2, None,
        IF i % 2 = 1 THEN "omitted" ELSE "positional")
ConcKeys == {K0, K1}

NoRet == [key |-> <<>>, hit |-> FALSE, invoked |-> FALSE, prior |-> -1,
          value |-> <<>>]

\* the wrapper's lookup: the position of the entry whose key equals the
\* call's (self, prediction and model argument all the same), or 0
LookupIgnoringModel(c, k) ==
    IF \E i \in DOMAIN c : c[i].key[1] = k[1] /\ c[i].key[2] = k[2]
    THEN CHOOSE i \in DOMAIN c : c[i].key[1] = k[1] /\ c[i].key[2] = k[2]
    ELSE 0
Lookup(c, k) ==
    IF \E i \in DOMAIN c : c[i].key = k
    THEN CHOOSE i \in DOMAIN c : c[i].key = k
    ELSE 0
InCache(c, k) == Lookup(c, k) # 0
IndexOf(c, k) == Lookup(c, k)
Without(c, i) == SubSeq(c, 1, i - 1) \o SubSeq(c, i + 1, Len(c))

\* a hit moves the entry to the most recently used end
Touch(c, k) == Append(Without(c, IndexOf(c, k)), c[IndexOf(c, k)])

\* after the function returned: keep an entry another call stored meanwhile,
\* else append, dropping the least recently used entry of a full cache
NoStore(c, k, v) == c
StoreDropNewest(c, k, v) ==
    IF InCache(c, k) THEN c
    ELSE IF Len(c) < CacheMaxSize THEN Append(c, [key |-> k, value |-> v])
    ELSE Append(SubSeq(c, 1, Len(c) - 1), [key |-> k, value |-> v])
Store(c, k, v) ==
    IF InCache(c, k) THEN c
    ELSE IF Len(c) < CacheMaxSize THEN Append(c, [key |-> k, value |-> v])
    ELSE Append(Tail(c), [key |-> k, value |-> v])

\* lines 78-86: the model named in the call, else the updater's own
Compute(k, n, dm) ==
    [gen |-> n, model |-> IF k[3] = None THEN dm[k[1]] ELSE k[3]]

\* bookkeeping: keys in order of their last call, never forgetting any
Position(r, k) == CHOOSE i \in DOMAIN r : r[i] = k
OthersSince(r, k) ==
    IF \E i \in DOMAIN r : r[i] = k THEN Len(r) - Position(r, k) ELSE -1
MoveToEnd(r, k) ==
    IF \E i \in DOMAIN r : r[i] = k
    THEN Append(Without(r, Position(r, k)), k)
    ELSE Append(r, k)
Count(f, k) == IF k \in DOMAIN f THEN f[k] ELSE 0

InitCacheVars ==
    /\ cache = <<>>
    /\ pm_pc = [t \in Threads |-> "idle"]
    /\ pm_key = [t \in Threads |-> <<>>]
    /\ pm_prior = [t \in Threads |-> -1]
    /\ pm_result = [t \in Threads |-> <<>>]
    /\ lastRet = [t \in Threads |-> NoRet]
    /\ pm_late = [t \in Threads |-> FALSE]
    /\ computations = <<>>
    /\ recency = <<>>
    /\ returned = {}
    /\ fillers = 0
    /\ defaultModel = [u \in Updaters |-> "um"]

CacheIdle == InitCacheVars

\* thread t calls predict_measurement; the wrapper looks the key up
PM_Call(t, k) ==
    /\ pm_pc[t] = "idle"
    /\ recency' = MoveToEnd(recency, k)
    /\ IF InCache(cache, k)
       THEN /\ cache' = Touch(cache, k)
            /\ lastRet' = [lastRet EXCEPT ![t] =
                  [key |-> k, hit |-> TRUE, invoked |-> FALSE,
                   prior |-> OthersSince(recency, k),
                   value |-> cache[IndexOf(cache, k)].value]]
            /\ returned' = returned \cup {k}
            /\ pm_pc' = pm_pc
            /\ UNCHANGED <<pm_key, pm_prior, pm_late>>
       ELSE /\ pm_pc' = [pm_pc EXCEPT ![t] = "computing"]
            /\ pm_key' = [pm_key EXCEPT ![t] = k]
            /\ pm_prior' = [pm_prior EXCEPT ![t] = OthersSince(recency, k)]
            /\ pm_late' = [pm_late EXCEPT ![t] = k \in returned]
            /\ lastRet' = [lastRet EXCEPT ![t] = NoRet]
            /\ UNCHANGED <<cache, returned>>
    /\ UNCHANGED <<pm_result, computations, defaultModel>>
    /\ CacheOnly

\* lines 78-86 run: measurement_model.function is called and the
\* MeasurementPrediction is built
PM_Compute(t) ==
    /\ pm_pc[t] = "computing"
    /\ LET n == Count(computations, pm_key[t]) + 1
       IN  /\ computations' = (pm_key[t] :> n) @@ computations
           /\ pm_result' = [pm_result EXCEPT ![t] =
                               Compute(pm_key[t], n, defaultModel)]
    /\ pm_pc' = [pm_pc EXCEPT ![t] = "storing"]
    /\ UNCHANGED <<cache, pm_key, pm_prior, lastRet, recency, returned,
                   pm_late, fillers, defaultModel>>
    /\ CacheOnly

\* the wrapper stores the result and returns it
PM_Store(t) ==
    /\ pm_pc[t] = "storing"
    /\ cache' = Store(cache, pm_key[t], pm_result[t])
    /\ lastRet' = [lastRet EXCEPT ![t] =
          [key |-> pm_key[t], hit |-> FALSE, invoked |-> TRUE,
           prior |-> pm_prior[t], value |-> pm_result[t]]]
    /\ returned' = returned \cup {pm_key[t]}
    /\ pm_pc' = [pm_pc EXCEPT ![t] = "idle"]
    /\ pm_key' = [pm_key EXCEPT ![t] = <<>>]
    /\ pm_prior' = [pm_prior EXCEPT ![t] = -1]
    /\ pm_late' = [pm_late EXCEPT ![t] = FALSE]
    /\ pm_result' = [pm_result EXCEPT ![t] = <<>>]
    /\ UNCHANGED <<computations, recency, fillers, defaultModel>>
    /\ CacheOnly

\* the updater's measurement_model attribute is assigned another model
\* between calls; the cache is left as it is
DefaultModels == {"um", "um2"}
ReplaceModel(u) ==
    /\ \A t \in Threads : pm_pc[t] = "idle"
    /\ \E mm \in DefaultModels \ {defaultModel[u]} :
         defaultModel' = [defaultModel EXCEPT ![u] = mm]
    /\ UNCHANGED <<cache, pm_pc, pm_key, pm_prior, pm_result, lastRet,
                   computations, recency, returned, pm_late, fillers>>
    /\ CacheOnly

\* ---------------------------------------- GromovFlowParticleUpdater.update
\* lines 112-113
num_steps == 20
b == 2

RECURSIVE Pow(_, _)
Pow(x, n) == IF n = 0 THEN 1 ELSE x * Pow(x, n - 1)

\* exact rationals <<numerator, denominator>>
Rat(n, d) == <<n \div GCD(n, d), d \div GCD(n, d)>>
RatAdd(x, y) ==
    LET l == (x[2] \div GCD(x[2], y[2])) * y[2]
    IN  Rat(x[1] * (l \div x[2]) + y[1] * (l \div y[2]), l)
RatMul(x, y) == Rat(x[1] * y[1], x[2] * y[2])

\* lines 114-115: s0 = (b-1) / (b**num_steps - 1), steps[n] = s0 * b**n
s0_NoMinusOne == Rat(b - 1, Pow(b, num_steps))
s0 == Rat(b - 1, Pow(b, num_steps) - 1)
steps == [n \in 1..num_steps |-> RatMul(s0, <<Pow(b, n - 1), 1>>)]
\* lines 117-118: time_steps[0] = 0, time_steps[1:] = cumsum(steps)
RECURSIVE cumsum(_, _)
cumsum(a, k) == IF k = 0 THEN <<0, 1>> ELSE RatAdd(cumsum(a, k - 1), a[k])
time_steps == [k \in 0..num_steps |-> cumsum(steps, k)]

\* the linear value of a Probability
Linear(p) == <<p.log_value.n, p.log_value.d>>

\* ParticleState.mean and .covar of particles ps: the weighted mean and the
\* weighted covariance of their state vectors
RECURSIVE MeanUpTo(_, _, _)
MeanUpTo(h, ps, k) ==
    IF k = 0 THEN <<0, 1>>
    ELSE RatAdd(MeanUpTo(h, ps, k - 1),
                RatMul(Linear(h[ps[k]].weight), <<h[ps[k]].state_vector, 1>>))
Mean(h, ps) == MeanUpTo(h, ps, Len(ps))
RECURSIVE CovarUpTo(_, _, _, _)
CovarUpTo(h, ps, m, k) ==
    IF k = 0 THEN <<0, 1>>
    ELSE LET dev == h[ps[k]].state_vector * m[2] - m[1]
         IN  RatAdd(CovarUpTo(h, ps, m, k - 1),
                    RatMul(Linear(h[ps[k]].weight), <<dev * dev, m[2] * m[2]>>))
Covar(h, ps) == CovarUpTo(h, ps, Mean(h, ps), Len(ps))

\* measurement_model.covar(): the measurement noise, by model
NoiseCovar(model) == IF model = "hm" THEN <<1, 1>> ELSE <<2, 1>>

NoCovar == <<>>
GNoHyp == [prediction |-> <<>>, measurement |-> <<>>,
           measurement_prediction |-> None]

\* lines 107-110 resolve the model as ParticleUpdater.update does

\* line 125: the updater's own shallow copies of the prediction's particles,
\* placed at fresh identities
AliasParticles(h, ps) == [heap |-> h, list |-> ps]
CopyPositiveParticles(h, ps) ==
    LET keep == SelectSeq(ps, LAMBDA q : h[q].weight.log_value.k = "fin")
        base == Cardinality(DOMAIN h)
    IN  [heap |-> [i \in 1..(base + Len(keep)) |->
                     IF i <= base THEN h[i] ELSE h[keep[i - base]]],
         list |-> [i \in 1..Len(keep) |-> base + i]]
CopyParticles(h, ps) ==
    LET base == Cardinality(DOMAIN h)
    IN  [heap |-> [i \in 1..(base + Len(ps)) |->
                     IF i <= base THEN h[i] ELSE h[ps[i - base]]],
         list |-> [i \in 1..Len(ps) |-> base + i]]

\* lines 128-131: H = matrix(), or jacobian(state) if looking up matrix
\* raised AttributeError; with neither, the AttributeError leaves update
JacobianFirst(caps) ==
    IF "jacobian" \in caps THEN "jacobian"
    ELSE IF "matrix" \in caps THEN "matrix"
    ELSE "AttributeError"
IdentityFallback(caps) ==
    IF "matrix" \in caps THEN "matrix"
    ELSE IF "jacobian" \in caps THEN "jacobian"
    ELSE "matrix"
Linearise(caps) ==
    IF "matrix" \in caps THEN "matrix"
    ELSE IF "jacobian" \in caps THEN "jacobian"
    ELSE "AttributeError"

\* sde_euler_maruyama_integration, one step: the state moves by
\* drift * dt + diffusion * dW with dW Gaussian, so any position may result
StepOutcomes(x) == StateVals

\* lines 148-152: ParticleStateUpdate(None, hypothesis,
\* particle_list=particles, timestamp=hypothesis.measurement.timestamp)
FlowUpdate(h, ps, hypId, hypothesis) ==
    [particle_list |-> ps,
     state_vector  |-> [i \in DOMAIN ps |-> h[ps[i]].state_vector],
     weight        |-> [i \in DOMAIN ps |-> h[ps[i]].weight],
     fixed_covar   |-> NoCovar,
     hypothesis    |-> hypId,
     timestamp     |-> hypothesis.measurement.timestamp]

\* ------------------------------- GromovFlowKalmanParticleUpdater.update
\* lines 194-199: the copy of the hypothesis handed to the Kalman updater
KalmanHypothesis(hypothesis, h, pred) ==
    [hypothesis EXCEPT
        !.prediction = [mean |-> Mean(h, pred.particles),
                        covar |-> Covar(h, pred.particles),
                        timestamp |-> pred.timestamp],
        !.measurement_prediction = None]

\* line 192: copy.copy(hypothesis) is a new object; the caller's stays as it is
AliasHypothesis(hyps, kh) == <<kh, kh>>
CopyHypothesis(hyps, kh) == Append(hyps, kh)

\* kalman_updater.update: the posterior covariance of a linearised update,
\* P - P H' (H P H' + R)^-1 H P, here with H = 1
KalmanUpdate(kh, R) ==
    [covar |-> Rat(kh.prediction.covar[1] * R[1],
                   kh.prediction.covar[1] * R[2] + R[1] * kh.prediction.covar[2]),
     timestamp |-> kh.measurement.timestamp]

\* lines 202-208
BlendedUpdate(pu, ku, hypId, h) ==
    [particle_list |-> <<>>,
     state_vector  |-> pu.state_vector,
     weight        |-> pu.weight,
     fixed_covar   |-> RatAdd(ku.covar, Covar(h, pu.particle_list)),
     hypothesis    |-> hypId,
     timestamp     |-> pu.timestamp]
HybridUpdate(pu, ku, hypId, h) ==
    [particle_list |-> <<>>,
     state_vector  |-> pu.state_vector,
     weight        |-> pu.weight,
     fixed_covar   |-> ku.covar,
     hypothesis    |-> hypId,
     timestamp     |-> pu.timestamp]

\* GromovFlow updaters at rest, for the specifications that do not run them
GFIdle ==
    /\ g_kind = "flow"
    /\ g_heap = <<[state_vector |-> 0, weight |-> Prob(1, 1)]>>
    /\ g_pred = [particles |-> <<1>>, timestamp |-> 0]
    /\ g_pred0 = g_heap
    /\ g_hyps = <<>>
    /\ g_selfModel = "um"
    /\ g_caps = {"matrix", "jacobian"}
    /\ g_pc = "off"
    /\ g_model = None
    /\ g_particles = <<>>
    /\ g_i = 0
    /\ g_n = 0
    /\ g_x = 0
    /\ g_trace = [steps |-> 0, matrix |-> 0, jacobian |-> 0]
    /\ g_particle_update = <<>>
    /\ g_kalman_update = <<>>
    /\ g_result = <<>>
    /\ g_error = None
    /\ g_sched = <<>>

InitGFVars ==
    /\ g_kind \in {"flow", "kalman"}
    /\ \E n \in 1..MaxParticles :
         \E sv \in StateVectors(n), w \in PriorWeights(n) :
           g_heap = [i \in 1..n |-> [state_vector |-> sv[i],
                                     weight |-> Prob(w[i], WeightDen)]]
    /\ g_pred = [particles |-> [i \in DOMAIN g_heap |-> i], timestamp |-> 0]
    /\ g_pred0 = g_heap
    /\ g_hyps = <<>>
    /\ g_selfModel \in {None, "um"}
    /\ g_caps \in SUBSET {"matrix", "jacobian"}
    /\ g_pc = "idle"
    /\ g_model = None
    /\ g_particles = <<>>
    /\ g_i = 0
    /\ g_n = 0
    /\ g_x = 0
    /\ g_trace = [steps |-> 0, matrix |-> 0, jacobian |-> 0]
    /\ g_particle_update = <<>>
    /\ g_kalman_update = <<>>
    /\ g_result = <<>>
    /\ g_error = None
    /\ g_sched = <<>>

GRaise(e) == g_pc' = "raised" /\ g_error' = e

\* the caller builds a hypothesis on the prediction and calls update
GF_Call ==
    /\ GFOnly
    /\ g_pc = "idle"
    /\ \E mm \in {None, "hm"} :
         g_hyps' = <<[prediction |-> g_pred,
                      measurement |-> [timestamp |-> 1, measurement_model |-> mm],
                      measurement_prediction |-> "mp0"]>>
    /\ g_pc' = "resolve"
    /\ UNCHANGED <<g_kind, g_heap, g_pred, g_pred0, g_selfModel, g_caps,
                   g_model, g_particles, g_i, g_n, g_x, g_trace,
                   g_particle_update, g_kalman_update, g_result, g_error, g_sched>>

\* lines 107-110
GF_Resolve ==
    /\ GFOnly
    /\ g_pc = "resolve"
    /\ g_model' = ResolveModel(g_hyps[1].measurement, g_selfModel)
    /\ g_pc' = "setup"
    /\ UNCHANGED <<g_kind, g_heap, g_pred, g_pred0, g_hyps, g_selfModel,
                   g_caps, g_particles, g_i, g_n, g_x, g_trace,
                   g_particle_update, g_kalman_update, g_result, g_error, g_sched>>

\* lines 112-122: the schedule (kept in g_sched), P, R and inv(R);
\* None.covar raises
GF_Setup ==
    /\ GFOnly
    /\ g_pc = "setup"
    /\ IF g_model = None
       THEN GRaise("AttributeError")
       ELSE g_pc' = "copy" /\ g_error' = g_error
    /\ g_sched' = [steps |-> steps, time_steps |-> time_steps]
    /\ UNCHANGED <<g_kind, g_heap, g_pred, g_pred0, g_hyps, g_selfModel,
                   g_caps, g_model, g_particles, g_i, g_n, g_x, g_trace,
                   g_particle_update, g_kalman_update, g_result>>

\* line 125; line 145 then takes the first particle
GF_Copy ==
    /\ GFOnly
    /\ g_pc = "copy"
    /\ LET c == CopyParticles(g_heap, g_pred.particles)
       IN  /\ g_heap' = c.heap
           /\ g_particles' = c.list
           /\ g_x' = IF c.list = <<>> THEN 0 ELSE c.heap[c.list[1]].state_vector
           /\ g_pc' = IF c.list = <<>> THEN "return" ELSE "integrate"
    /\ g_i' = 1
    /\ g_n' = 0
    /\ UNCHANGED <<g_kind, g_pred, g_pred0, g_hyps, g_selfModel, g_caps,
                   g_model, g_trace, g_particle_update, g_kalman_update,
                   g_result, g_error, g_sched>>

\* lines 127-143 called by one step of the integration at pseudo-time
\* time_steps[g_n]: linearise, then move the working state; inv and
\* cholesky_eps may raise LinAlgError
GF_Step ==
    /\ GFOnly
    /\ g_pc = "integrate"
    /\ g_n < num_steps
    /\ LET H == Linearise(g_caps)
       IN  IF H = "AttributeError"
           THEN /\ GRaise("AttributeError")
                /\ UNCHANGED <<g_n, g_x, g_trace>>
           ELSE /\ g_trace' = [steps |-> g_trace.steps + 1,
                               matrix |-> g_trace.matrix + (IF H = "matrix" THEN 1 ELSE 0),
                               jacobian |-> g_trace.jacobian + (IF H = "jacobian" THEN 1 ELSE 0)]
                /\ \/ /\ GRaise("LinAlgError")
                      /\ UNCHANGED <<g_n, g_x>>
                   \/ /\ g_x' \in StepOutcomes(g_x)
                      /\ g_n' = g_n + 1
                      /\ UNCHANGED <<g_pc, g_error>>
    /\ UNCHANGED <<g_kind, g_heap, g_pred, g_pred0, g_hyps, g_selfModel,
                   g_caps, g_model, g_particles, g_i, g_particle_update,
                   g_kalman_update, g_result, g_sched>>

\* line 146: the integrated state goes to the updater's particle; line 145
\* takes the next one
GF_Assign ==
    /\ GFOnly
    /\ g_pc = "integrate"
    /\ g_n = num_steps
    /\ g_heap' = [g_heap EXCEPT ![g_particles[g_i]].state_vector = g_x]
    /\ g_i' = g_i + 1
    /\ g_n' = 0
    /\ IF g_i < Len(g_particles)
       THEN /\ g_x' = g_heap[g_particles[g_i + 1]].state_vector
            /\ g_pc' = g_pc
       ELSE /\ g_x' = 0
            /\ g_pc' = "return"
    /\ UNCHANGED <<g_kind, g_pred, g_pred0, g_hyps, g_selfModel, g_caps,
                   g_model, g_particles, g_trace, g_particle_update,
                   g_kalman_update, g_result, g_error, g_sched>>

\* lines 148-152; line 190 for the Kalman variant
GF_Return ==
    /\ GFOnly
    /\ g_pc = "return"
    /\ LET u == FlowUpdate(g_heap, g_particles, 1, g_hyps[1])
       IN  /\ g_particle_update' = <<u>>
           /\ IF g_kind = "flow"
              THEN g_result' = <<u>> /\ g_pc' = "done"
              ELSE g_result' = g_result /\ g_pc' = "kalman_copy"
    /\ UNCHANGED <<g_kind, g_heap, g_pred, g_pred0, g_hyps, g_selfModel,
                   g_caps, g_model, g_particles, g_i, g_n, g_x, g_trace,
                   g_kalman_update, g_error, g_sched>>

\* lines 192-199
GFK_Copy ==
    /\ GFOnly
    /\ g_pc = "kalman_copy"
    /\ g_hyps' = CopyHypothesis(g_hyps,
                   KalmanHypothesis(g_hyps[1], g_heap, g_hyps[1].prediction))
    /\ g_pc' = "kalman_update"
    /\ UNCHANGED <<g_kind, g_heap, g_pred, g_pred0, g_selfModel, g_caps,
                   g_model, g_particles, g_i, g_n, g_x, g_trace,
                   g_particle_update, g_kalman_update, g_result, g_error, g_sched>>

\* line 200; a singular innovation covariance raises LinAlgError
GFK_Kalman ==
    /\ GFOnly
    /\ g_pc = "kalman_update"
    /\ \/ /\ GRaise("LinAlgError")
          /\ UNCHANGED g_kalman_update
       \/ /\ g_kalman_update' = <<KalmanUpdate(g_hyps[2], NoiseCovar(g_model))>>
          /\ g_pc' = "kalman_return"
          /\ UNCHANGED g_error
    /\ UNCHANGED <<g_kind, g_heap, g_pred, g_pred0, g_hyps, g_selfModel,
                   g_caps, g_model, g_particles, g_i, g_n, g_x, g_trace,
                   g_particle_update, g_result, g_sched>>

\* lines 202-208
GFK_Return ==
    /\ GFOnly
    /\ g_pc = "kalman_return"
    /\ g_result' = <<HybridUpdate(g_particle_update[1], g_kalman_update[1], 1, g_heap)>>
    /\ g_pc' = "done"
    /\ UNCHANGED <<g_kind, g_heap, g_pred, g_pred0, g_hyps, g_selfModel,
                   g_caps, g_model, g_particles, g_i, g_n, g_x, g_trace,
                   g_particle_update, g_kalman_update, g_error, g_sched>>

\* ------------------- FFmpegVideoStreamReader / OpenCVVideoStreamReader
Readers == {"ffmpeg", "opencv", "opencv_async"}
BlankFrame == 0         \* ImageFrame(np.zeros((10,10,3))): not a stream frame

\* Queue(maxsize=buffer_size).put waits while this is false; maxsize <= 0
\* makes the queue unbounded
NotFullEver(size, q) == TRUE
NotFull(size, q) == size <= 0 \/ Len(q) < size
Put(size, q, f) == Append(q, f)

\* lines 201 / 389: self._capture_thread.is_alive()
is_alive(pc) == pc \notin {"ended"}

\* the readers at rest, for the specifications that do not run them
ReaderIdle ==
    /\ reader = "ffmpeg"
    /\ buffer_size = 1
    /\ buffer = <<>>
    /\ colourTransform = FALSE
    /\ reader_rate = 30
    /\ stream_left = 0
    /\ stream_open = FALSE
    /\ run_pc = "off"
    /\ run_frame = None
    /\ run_error = None
    /\ gen_pc = "off"
    /\ handed = <<>>
    /\ yielded = <<>>
    /\ blanks = 0

\* __init__ (lines 158-197, 360-385): the buffer is made and the capture
\* thread started; the consumer has not asked for a frame yet
InitReaderVars ==
    /\ reader \in Readers
    /\ buffer_size \in -1..MaxBuffer
    /\ buffer = <<>>
    /\ colourTransform \in (IF reader = "ffmpeg" THEN {FALSE} ELSE BOOLEAN)
    /\ reader_rate \in (IF reader = "ffmpeg" THEN {30} ELSE {0, 30})
    /\ stream_left \in 0..MaxFrames
    /\ stream_open = TRUE
    /\ run_pc = "while"
    /\ run_frame = None
    /\ run_error = None
    /\ gen_pc = "while"
    /\ handed = <<>>
    /\ yielded = <<>>
    /\ blanks = 0

\* the next frame of the stream: frames are numbered 1, 2, ...
NextFrame == Len(SelectSeq(handed, LAMBDA f : f # BlankFrame)) + 1

\* lines 208 / 397-403: the loop condition, then the OpenCV reader's delay
\* 1/self.force_frame_rate, which raises ZeroDivisionError at rate 0
Run_While ==
    /\ ReaderOnly
    /\ run_pc = "while"
    /\ IF ~stream_open
       THEN run_pc' = "ended" /\ run_error' = run_error
       ELSE IF reader # "ffmpeg" /\ reader_rate = 0
       THEN run_pc' = "ended" /\ run_error' = "ZeroDivisionError"
       ELSE run_pc' = "read" /\ run_error' = run_error
    /\ UNCHANGED <<reader, buffer_size, buffer, colourTransform, reader_rate,
                   stream_left, stream_open, run_frame, gen_pc, handed,
                   yielded, blanks>>

\* lines 405-408 once the video has run out: `not ret` holds for the
\* (False, None) of cv2.VideoCapture.read, and not for the
\* (latestnum, None) of FreshestFrame.read, whose latestnum is at least 1
NotRetNever(r) == FALSE
NotRet(r) == r = "opencv"

\* lines 214-223: FFmpeg: the bytes of one frame, or nothing at the end of
\* the stream.  lines 405-413: OpenCV: cv2.VideoCapture.read gives
\* (False, None) at the end, which breaks the loop; FreshestFrame.read gives
\* (latestnum, None): ret is true and cvtColor fails on None.  Without
\* 'colourTransform' in output_opts the frame is not put.
Run_Read ==
    /\ ReaderOnly
    /\ run_pc = "read"
    /\ IF stream_left > 0
       THEN /\ stream_left' = stream_left - 1
            /\ IF reader = "ffmpeg" \/ colourTransform
               THEN /\ run_pc' = "put"
                    /\ \/ run_frame' = NextFrame /\ blanks' = blanks
                       \/ /\ reader # "ffmpeg"      \* cvtColor raised
                          /\ blanks < MaxBlank
                          /\ run_frame' = BlankFrame
                          /\ blanks' = blanks + 1
                    /\ handed' = Append(handed, run_frame')
               ELSE /\ run_pc' = "while"
                    /\ UNCHANGED <<run_frame, handed, blanks>>
       ELSE /\ stream_left' = stream_left
            /\ IF reader = "ffmpeg"
               THEN run_pc' = "while" /\ UNCHANGED <<run_frame, handed, blanks>>
               ELSE IF NotRet(reader)
               THEN run_pc' = "ended" /\ UNCHANGED <<run_frame, handed, blanks>>
               ELSE IF colourTransform
               THEN /\ blanks < MaxBlank
                    /\ run_pc' = "put"
                    /\ run_frame' = BlankFrame
                    /\ blanks' = blanks + 1
                    /\ handed' = Append(handed, BlankFrame)
               ELSE run_pc' = "while" /\ UNCHANGED <<run_frame, handed, blanks>>
    /\ UNCHANGED <<reader, buffer_size, buffer, colourTransform, reader_rate,
                   stream_open, run_error, gen_pc, yielded>>

\* lines 226 / 414 / 421: self.buffer.put(frame)
Run_Put ==
    /\ ReaderOnly
    /\ run_pc = "put"
    /\ NotFull(buffer_size, buffer)
    /\ buffer' = Put(buffer_size, buffer, run_frame)
    /\ run_frame' = None
    /\ run_pc' = "while"
    /\ UNCHANGED <<reader, buffer_size, colourTransform, reader_rate,
                   stream_left, stream_open, run_error, gen_pc, handed,
                   yielded, blanks>>

\* the ffmpeg process exits, or terminate() releases the stream
Stream_Close ==
    /\ ReaderOnly
    /\ stream_open
    /\ stream_open' = FALSE
    /\ UNCHANGED <<reader, buffer_size, buffer, colourTransform, reader_rate,
                   stream_left, run_pc, run_frame, run_error, gen_pc, handed,
                   yielded, blanks>>

\* lines 201 / 389: while self._capture_thread.is_alive()
Gen_While ==
    /\ ReaderOnly
    /\ gen_pc = "while"
    /\ gen_pc' = IF is_alive(run_pc) THEN "get" ELSE "stopped"
    /\ UNCHANGED <<reader, buffer_size, buffer, colourTransform, reader_rate,
                   stream_left, stream_open, run_pc, run_frame, run_error,
                   handed, yielded, blanks>>

\* lines 203-205 / 391-393: self.buffer.get() waits for a frame, which is
\* yielded
Gen_Get ==
    /\ ReaderOnly
    /\ gen_pc = "get"
    /\ buffer # <<>>
    /\ yielded' = Append(yielded, Head(buffer))
    /\ buffer' = Tail(buffer)
    /\ gen_pc' = "while"
    /\ UNCHANGED <<reader, buffer_size, colourTransform, reader_rate,
                   stream_left, stream_open, run_pc, run_frame, run_error,
                   handed, blanks>>

\* ------------------------------------------------------- FreshestFrame
FFIdle ==
    /\ force_frame_rate = 0
    /\ running = FALSE
    /\ latestnum = 0
    /\ frame = None
    /\ counter = 0
    /\ capture_left = 0
    /\ img = <<>>
    /\ ff_pc = "off"
    /\ ff_error = None
    /\ rd_pc = "off"
    /\ rd_args = <<>>
    /\ rd_seqnumber = None
    /\ rd_latest0 = 0
    /\ rd_latest1 = 0
    /\ rd_waited = FALSE
    /\ rd_ret = <<>>
    /\ reads = 0

VideoIdle == ReaderIdle /\ FFIdle

\* __init__ (lines 233-259) ends with start() (261-263): running is True
InitFFVars ==
    /\ force_frame_rate \in {0, 30}
    /\ running = TRUE
    /\ latestnum = 0
    /\ frame = None
    /\ counter = 0
    /\ capture_left \in 0..MaxFrames
    /\ img = <<>>
    /\ ff_pc = "while"
    /\ ff_error = None
    /\ rd_pc = "idle"
    /\ rd_args = <<>>
    /\ rd_seqnumber = None
    /\ rd_latest0 = 0
    /\ rd_latest1 = 0
    /\ rd_waited = FALSE
    /\ rd_ret = <<>>
    /\ reads = 0

\* line 276
FF_While ==
    /\ FFOnly
    /\ ff_pc = "while"
    /\ ff_pc' = IF running THEN "delay" ELSE "ended"
    /\ UNCHANGED <<force_frame_rate, running, latestnum, frame, counter,
                   capture_left, img, ff_error, rd_pc, rd_args, rd_seqnumber,
                   rd_latest0, rd_latest1, rd_waited, rd_ret, reads>>

\* lines 277-281: ddt = 1/self.force_frame_rate - dt, then perhaps a sleep;
\* the division raises ZeroDivisionError at rate 0 and the thread dies
DelayRaises(rate) == rate = 0
FF_Delay ==
    /\ FFOnly
    /\ ff_pc = "delay"
    /\ IF DelayRaises(force_frame_rate)
       THEN ff_pc' = "dead" /\ ff_error' = "ZeroDivisionError"
       ELSE ff_pc' = "capture" /\ ff_error' = ff_error
    /\ UNCHANGED <<force_frame_rate, running, latestnum, frame, counter,
                   capture_left, img, rd_pc, rd_args, rd_seqnumber,
                   rd_latest0, rd_latest1, rd_waited, rd_ret, reads>>

\* lines 284-285: capture.read() gives (True, frame), or (False, None) once
\* the video has run out; frames are named by their number
FF_Capture ==
    /\ FFOnly
    /\ ff_pc = "capture"
    /\ counter <= MaxFrames
    /\ IF capture_left > 0
       THEN img' = <<TRUE, counter + 1>> /\ capture_left' = capture_left - 1
       ELSE img' = <<FALSE, None>> /\ capture_left' = capture_left
    /\ counter' = counter + 1
    /\ ff_pc' = "publish"
    /\ UNCHANGED <<force_frame_rate, running, latestnum, frame, ff_error,
                   rd_pc, rd_args, rd_seqnumber, rd_latest0, rd_latest1,
                   rd_waited, rd_ret, reads>>

\* lines 288-291, under the condition's lock; callback is None
FF_Publish ==
    /\ FFOnly
    /\ ff_pc = "publish"
    /\ frame' = IF img[1] THEN img[2] ELSE None
    /\ latestnum' = counter
    /\ ff_pc' = "while"
    /\ UNCHANGED <<force_frame_rate, running, counter, capture_left, img,
                   ff_error, rd_pc, rd_args, rd_seqnumber, rd_latest0,
                   rd_latest1, rd_waited, rd_ret, reads>>

\* line 266: release() asks the thread to stop
FF_Release ==
    /\ FFOnly
    /\ running
    /\ running' = FALSE
    /\ UNCHANGED <<force_frame_rate, latestnum, frame, counter, capture_left,
                   img, ff_pc, ff_error, rd_pc, rd_args, rd_seqnumber,
                   rd_latest0, rd_latest1, rd_waited, rd_ret, reads>>

\* the seqnumber argument: <<>> for None, <<n>> for the number n
NoSeqnumber == <<>>
\* lines 307-310: the sequence number read waits for
CurrentSeq(seqnumber, latest) ==
    IF seqnumber = NoSeqnumber THEN latest
    ELSE IF seqnumber[1] < 1 THEN 1 ELSE seqnumber[1]
EffectiveSeq(seqnumber, latest) ==
    IF seqnumber = NoSeqnumber THEN (IF latest + 1 < 1 THEN 1 ELSE latest + 1)
    ELSE IF seqnumber[1] < 1 THEN 1 ELSE seqnumber[1]

ReadArgs ==
    [wait : BOOLEAN,
     seqnumber : {NoSeqnumber} \cup {<<n>> : n \in 0..MaxFrames},
     timeout : {None, "timeout"}]

\* a caller calls read(wait, seqnumber, timeout)
RD_Call ==
    /\ FFOnly
    /\ rd_pc = "idle"
    /\ reads < MaxReads
    /\ rd_args' \in ReadArgs
    /\ rd_latest0' = latestnum
    /\ rd_latest1' = 0
    /\ rd_seqnumber' = None
    /\ rd_waited' = FALSE
    /\ rd_ret' = <<>>
    /\ reads' = reads + 1
    /\ rd_pc' = "lock"
    /\ UNCHANGED <<force_frame_rate, running, latestnum, frame, counter,
                   capture_left, img, ff_pc, ff_error>>

\* lines 305-316: with the lock held; wait_for returns at once if
\* latestnum >= seqnumber, else releases the lock and waits
RD_Enter ==
    /\ FFOnly
    /\ rd_pc = "lock"
    /\ rd_latest1' = latestnum
    /\ IF ~rd_args.wait
       THEN /\ rd_ret' = <<[num |-> latestnum, frame |-> frame]>>
            /\ rd_pc' = "idle"
            /\ UNCHANGED <<rd_seqnumber, rd_waited>>
       ELSE LET seq == EffectiveSeq(rd_args.seqnumber, latestnum)
            IN  /\ rd_seqnumber' = seq
                /\ IF latestnum >= seq
                   THEN /\ rd_ret' = <<[num |-> latestnum, frame |-> frame]>>
                        /\ rd_pc' = "idle"
                        /\ rd_waited' = rd_waited
                   ELSE /\ rd_pc' = "waiting"
                        /\ rd_waited' = TRUE
                        /\ rd_ret' = rd_ret
    /\ UNCHANGED <<force_frame_rate, running, latestnum, frame, counter,
                   capture_left, img, ff_pc, ff_error, rd_args, rd_latest0,
                   reads>>

\* line 312 after notify_all: the predicate holds, wait_for returns True
RD_Wake ==
    /\ FFOnly
    /\ rd_pc = "waiting"
    /\ latestnum >= rd_seqnumber
    /\ rd_ret' = <<[num |-> latestnum, frame |-> frame]>>
    /\ rd_pc' = "idle"
    /\ UNCHANGED <<force_frame_rate, running, latestnum, frame, counter,
                   capture_left, img, ff_pc, ff_error, rd_args, rd_seqnumber,
                   rd_latest0, rd_latest1, rd_waited, reads>>

\* lines 312-314: the timeout passes first, wait_for returns False
RD_Timeout ==
    /\ FFOnly
    /\ rd_pc = "waiting"
    /\ rd_args.timeout # None
    /\ latestnum < rd_seqnumber
    /\ rd_ret' = <<[num |-> latestnum, frame |-> frame]>>
    /\ rd_pc' = "idle"
    /\ UNCHANGED <<force_frame_rate, running, latestnum, frame, counter,
                   capture_left, img, ff_pc, ff_error, rd_args, rd_seqnumber,
                   rd_latest0, rd_latest1, rd_waited, reads>>

\* -------------------------------------------------------- specifications
InitPU == InitPUVars /\ CacheIdle /\ GFIdle /\ VideoIdle

NextPU == PU_Call \/ PU_Copy \/ PU_Resolve \/ PU_Weigh \/ PU_Resample \/ PU_Return

SpecPU == InitPU /\ [][NextPU]_vars

\* one caller: key K0, the filler called last, or the next filler
CallK0 == PM_Call(1, K0) /\ UNCHANGED fillers
CallLastFiller ==
    /\ fillers > 0
    /\ PM_Call(1, Filler(fillers))
    /\ UNCHANGED fillers
CallNextFiller ==
    /\ fillers < MaxFillers
    /\ PM_Call(1, Filler(fillers + 1))
    /\ fillers' = fillers + 1

InitCache == InitCacheVars /\ PUIdle /\ GFIdle /\ VideoIdle
NextCache ==
    CallK0 \/ CallLastFiller \/ CallNextFiller \/ PM_Compute(1) \/ PM_Store(1)
SpecCache == InitCache /\ [][NextCache]_vars

InitGF == InitGFVars /\ PUIdle /\ CacheIdle /\ VideoIdle
NextGF ==
    GF_Call \/ GF_Resolve \/ GF_Setup \/ GF_Copy \/ GF_Step \/ GF_Assign
    \/ GF_Return \/ GFK_Copy \/ GFK_Kalman \/ GFK_Return
SpecGF == InitGF /\ [][NextGF]_vars

\* either updater is called: a ParticleUpdater or a Gromov flow updater
InitUpd ==
    \/ InitPUVars /\ CacheIdle /\ GFIdle /\ VideoIdle
    \/ InitGFVars /\ CacheIdle /\ PUIdle /\ VideoIdle
NextUpd == NextPU \/ NextGF
SpecUpd == InitUpd /\ [][NextUpd]_vars

\* a video reader: its capture thread, its stream and its consumer
InitReader == InitReaderVars /\ FFIdle /\ PUIdle /\ CacheIdle /\ GFIdle
NextReader ==
    Run_While \/ Run_Read \/ Run_Put \/ Stream_Close \/ Gen_While \/ Gen_Get
SpecReader == InitReader /\ [][NextReader]_vars

\* a FreshestFrame thread, release() and a caller of read()
InitFF == InitFFVars /\ ReaderIdle /\ PUIdle /\ CacheIdle /\ GFIdle
NextFF ==
    FF_While \/ FF_Delay \/ FF_Capture \/ FF_Publish \/ FF_Release
    \/ RD_Call \/ RD_Enter \/ RD_Wake \/ RD_Timeout
SpecFF == InitFF /\ [][NextFF]_vars

\* several threads calling with a few keys
CallConc == \E t \in Threads, k \in ConcKeys : PM_Call(t, k) /\ UNCHANGED fillers
ComputeConc == \E t \in Threads : PM_Compute(t)
StoreConc == \E t \in Threads : PM_Store(t)
NextConc == CallConc \/ ComputeConc \/ StoreConc
SpecConc == InitCache /\ [][NextConc]_vars

\* callers of predict_measurement on an updater whose model gets replaced
ReplacePU == ReplaceModel("pu")
NextReplace == CallConc \/ ComputeConc \/ StoreConc \/ ReplacePU
SpecReplace == InitCache /\ [][NextReplace]_vars

\* ------------------------------------------- claims on ParticleUpdater
Returned == pu_pc = "idle" /\ result # <<>>

\* a Probability is a number >= 0 (NaN is not)
NonNegative(p) == p.log_value.k \in {"fin", "ninf", "pinf"}
\* the weights are numbers and add up to exactly 1
SumsToOne(w) ==
    /\ \A i \in DOMAIN w : w[i].log_value.k \in {"fin", "ninf"}
    /\ SumLin(np_log(w), Len(w)) = <<1, 1>>

\* C1: whatever log-likelihoods logpdf returned (log 0 = -inf included), the
\* weights of the update that ParticleUpdater.update returns are all
\* non-negative and sum to 1.
C1_WeightsNormalised ==
    Returned =>
        /\ \A i \in DOMAIN result[1].weight : NonNegative(result[1].weight[i])
        /\ SumsToOne(result[1].weight)

\* C4: ParticleUpdater.update never changes the fields of
\* hypothesis.prediction; once line 59 has stored the normalised weights,
\* they sit on another object than the prediction.
C4_PredictionNotMutated ==
    /\ heap[PredictionId] = pred0
    /\ written # <<>> => predicted_state # PredictionId
C4_Witness ==
    /\ Returned
    /\ calls = MaxCalls
    /\ resampler = None
    /\ result[1].weight # pred0.weight
    /\ heap[predicted_state].weight = written

\* C8: with a resampler configured, an update that returns has called
\* resampler.resample exactly once, on the object line 59 wrote the
\* normalised weights to and after that write (they sum to 1 whenever the
\* total weight is a positive finite number); the update carries the state
\* vectors and weights of what resample returned, the measurement's
\* timestamp and a reference to the hypothesis.
C8_ResampleOnceOnNormalised ==
    (Returned /\ resampler # None) =>
        /\ Len(resampleLog) = 1
        /\ written # <<>>
        /\ resampleLog[1].arg # PredictionId
        /\ resampleLog[1].argState.weight = written
        /\ lseFinite => SumsToOne(resampleLog[1].argState.weight)
        /\ result[1].state_vector = resampleLog[1].retState.state_vector
        /\ result[1].weight = resampleLog[1].retState.weight
        /\ result[1].timestamp = hyp.measurement.timestamp
        /\ result[1].hypothesis = hyp.id
C8_Witness ==
    /\ Returned
    /\ resampler # None
    /\ Len(resampleLog) = 1
    /\ resampleLog[1].ret # resampleLog[1].arg
    /\ resampleLog[1].retState.state_vector # pred0.state_vector
    /\ result[1].weight # written

\* C9: with no resampler configured, the returned update holds the
\* prediction's particles: as many, in the same order, with the same state
\* vectors.
C9_NoResamplerSameParticles ==
    (Returned /\ resampler = None) =>
        /\ Len(result[1].state_vector) = Len(pred0.state_vector)
        /\ Len(result[1].weight) = Len(pred0.weight)
        /\ \A i \in DOMAIN pred0.state_vector :
              result[1].state_vector[i] = pred0.state_vector[i]
C9_Witness ==
    /\ Returned
    /\ resampler = None
    /\ Len(pred0.state_vector) = MaxParticles
    /\ \E i, j \in DOMAIN pred0.state_vector :
          pred0.state_vector[i] # pred0.state_vector[j]
    /\ result[1].weight # pred0.weight


\* ------------------------------------- claims on predict_measurement
\* the call that returned last had an earlier call with the same cache key
SameKeyCalledBefore(ret) == ret.prior >= 0

\* C2 as stated: a call whose (updater, state_prediction, measurement_model,
\* kwargs) equal those of an earlier call returns the cached result without
\* invoking measurement_model.function, however many other calls lie in
\* between.  (Stated for calls that even pass their arguments the same way.)
C2_AlwaysCached ==
    \A t \in Threads :
        (lastRet[t] # NoRet /\ SameKeyCalledBefore(lastRet[t])) =>
            lastRet[t].hit /\ ~lastRet[t].invoked

\* C2 amended: a call whose cache key equals that of an earlier call returns
\* the cached result without invoking measurement_model.function if fewer
\* than 128 distinct other keys were called since that earlier call; with
\* 128 or more the entry is gone and the function runs again.  A call with
\* the same combination passed another way has another key and is computed.
C2_CachedWithin128 ==
    \A t \in Threads :
        lastRet[t] # NoRet =>
            /\ (lastRet[t].prior >= 0 /\ lastRet[t].prior < CacheMaxSize) =>
                   /\ lastRet[t].hit /\ ~lastRet[t].invoked
                   /\ lastRet[t].value.gen = computations[lastRet[t].key]
            /\ (lastRet[t].prior < 0 \/ lastRet[t].prior >= CacheMaxSize) =>
                   ~lastRet[t].hit /\ lastRet[t].invoked
            /\ InCache(cache, lastRet[t].key)
            /\ cache[IndexOf(cache, lastRet[t].key)].value = lastRet[t].value
C2_Witness ==
    /\ lastRet[1].key = K0
    /\ lastRet[1].hit
    /\ lastRet[1].prior = CacheMaxSize - 1
    /\ Len(cache) = CacheMaxSize
    /\ \E i \in DOMAIN recency :
          /\ recency[i] # K0
          /\ Combination(recency[i]) = Combination(Filler(fillers))
          /\ recency[i] # Filler(fillers)

\* C3 as stated: with threads calling concurrently, the body of
\* predict_measurement is executed at most once per cache key.
C3_AtMostOnce ==
    \A k \in DOMAIN computations : computations[k] <= 1

\* C3 amended: every call that finds its key absent executes the body
\* itself, so the body may run once per overlapping caller (at most once per
\* thread); a call that begins after some call with its key has returned
\* never executes it (while the entry is cached), and the cache never holds
\* two entries for one key.
C3_OncePerOverlappingCaller ==
    /\ \A k \in DOMAIN computations : computations[k] <= NThreads
    /\ \A t \in Threads : pm_pc[t] \in {"computing", "storing"} => ~pm_late[t]
    /\ \A i, j \in DOMAIN cache : cache[i].key = cache[j].key => i = j
C3_Witness ==
    /\ K0 \in DOMAIN computations
    /\ computations[K0] = NThreads
    /\ \A t \in Threads : pm_pc[t] = "idle"
    /\ \E t \in Threads : lastRet[t].key = K0 /\ lastRet[t].hit


\* ------------------------------------- claims on the Gromov flow updaters
PriorIds == DOMAIN g_pred0

\* C5: GromovFlowParticleUpdater.update never changes the prediction's
\* particles: at every point of the update, also after it raised partway
\* through the integration loop, each particle of hypothesis.prediction has
\* the state vector and weight it had at the call; the migrated state
\* vectors go to other objects.
C5_PriorParticlesUntouched ==
    /\ g_pred.particles = [i \in PriorIds |-> i]
    /\ \A i \in PriorIds : g_heap[i] = g_pred0[i]
    /\ \A j \in DOMAIN g_particles : g_particles[j] \notin PriorIds
C5_Witness ==
    /\ g_pc = "raised"
    /\ g_error = "LinAlgError"
    /\ g_i = MaxParticles
    /\ g_n > 0
    /\ g_heap[g_particles[1]].state_vector # g_pred0[1].state_vector

\* C6: what GromovFlowKalmanParticleUpdater.update returns has as fixed
\* covariance the covariance of the kalman_updater.update result, which is
\* the linearised update of the prior moments, and the state vectors,
\* weights and timestamp of the GromovFlowParticleUpdater.update result.
C6_CovarFromKalmanBranch ==
    (g_kind = "kalman" /\ g_result # <<>>) =>
        /\ g_result[1].fixed_covar = g_kalman_update[1].covar
        /\ g_result[1].fixed_covar =
              KalmanUpdate([prediction |-> [covar |-> Covar(g_pred0, g_pred.particles)],
                            measurement |-> g_hyps[1].measurement],
                           NoiseCovar(g_model)).covar
        /\ g_result[1].state_vector = g_particle_update[1].state_vector
        /\ g_result[1].weight = g_particle_update[1].weight
        /\ g_result[1].timestamp = g_particle_update[1].timestamp
C6_Witness ==
    /\ g_kind = "kalman"
    /\ g_result # <<>>
    /\ g_result[1].fixed_covar # Covar(g_heap, g_particles)
    /\ g_result[1].fixed_covar # Covar(g_pred0, g_pred.particles)
    /\ g_result[1].fixed_covar # <<0, 1>>
    /\ \E i \in PriorIds : g_result[1].state_vector[i] # g_pred0[i].state_vector

\* C7: what GromovFlowParticleUpdater.update returns holds as many particles
\* as the prediction, all different objects, the i-th with the weight of the
\* prediction's i-th particle, and carries the measurement's timestamp.
C7_SameParticlesSameWeights ==
    g_particle_update # <<>> =>
        /\ DOMAIN g_particle_update[1].particle_list = PriorIds
        /\ DOMAIN g_particle_update[1].state_vector = PriorIds
        /\ DOMAIN g_particle_update[1].weight = PriorIds
        /\ \A i, j \in PriorIds :
              g_particle_update[1].particle_list[i] = g_particle_update[1].particle_list[j]
                  => i = j
        /\ \A i \in PriorIds : g_particle_update[1].weight[i] = g_pred0[i].weight
        /\ g_particle_update[1].timestamp = g_hyps[1].measurement.timestamp
C7_Witness ==
    /\ g_kind = "flow"
    /\ g_result # <<>>
    /\ Len(g_result[1].weight) = MaxParticles
    /\ \E i \in PriorIds : g_pred0[i].weight = Prob(0, 1)
    /\ \E i \in PriorIds : g_result[1].state_vector[i] # g_pred0[i].state_vector

\* C10: at every integration step, jacobian is called only if the model has
\* no matrix; if the model has matrix, every step's H came from matrix().
C10_JacobianOnlyWithoutMatrix ==
    /\ g_trace.jacobian > 0 => "matrix" \notin g_caps
    /\ "matrix" \in g_caps => g_trace.jacobian = 0 /\ g_trace.matrix = g_trace.steps
    /\ g_trace.matrix + g_trace.jacobian = g_trace.steps
C10_Witness ==
    /\ g_pc = "done"
    /\ g_caps = {"matrix", "jacobian"}
    /\ g_trace.matrix = num_steps * MaxParticles


\* ------------------------------------- claims on model resolution
\* the call in progress (or the last call) found a model nowhere
PUNoModel ==
    hyp # NoHyp /\ hyp.measurement.measurement_model = None /\ selfModel = None
GFNoModel ==
    g_hyps # <<>> /\ g_hyps[1].measurement.measurement_model = None
                  /\ g_selfModel = None

\* C11: when neither the measurement nor the updater has a measurement
\* model, ParticleUpdater.update and GromovFlowParticleUpdater.update end by
\* raising an error: no update is returned, the resampler and logpdf are not
\* called, no integration step runs, no particle is copied and the
\* prediction is as it was.
C11_NoModelRaises ==
    /\ PUNoModel =>
          /\ pu_pc \in {"copy", "resolve", "weigh", "raised"}
          /\ pu_pc = "raised" => pu_error = "AttributeError"
          /\ result = <<>>
          /\ resampleLog = <<>>
          /\ logpdfLog = <<>>
          /\ heap[PredictionId] = pred0
    /\ GFNoModel =>
          /\ g_pc \in {"resolve", "setup", "raised"}
          /\ g_pc = "raised" => g_error = "AttributeError"
          /\ g_result = <<>>
          /\ g_particle_update = <<>>
          /\ g_kalman_update = <<>>
          /\ g_trace.steps = 0
          /\ g_particles = <<>>
          /\ g_heap = g_pred0
C11_WitnessPU ==
    /\ PUNoModel
    /\ pu_pc = "raised"
    /\ resampler # None
    /\ Len(pred0.weight) = MaxParticles
C11_WitnessGF ==
    /\ GFNoModel
    /\ g_pc = "raised"
    /\ g_kind = "kalman"
    /\ g_caps = {"matrix", "jacobian"}
    /\ Len(g_pred0) = MaxParticles
C11_Witness == C11_WitnessPU \/ C11_WitnessGF

\* C13: the model ParticleUpdater.update and GromovFlowParticleUpdater.update
\* work with is the measurement's own whenever the measurement has one, and
\* the updater's only when it has none.
Resolved(meas, self_model) ==
    IF meas.measurement_model # None THEN meas.measurement_model
    ELSE self_model
C13_MeasurementModelFirst ==
    /\ pu_pc \in {"weigh", "resample", "return", "idle", "raised"} /\ hyp # NoHyp =>
          /\ measurement_model = Resolved(hyp.measurement, selfModel)
          /\ \A i \in DOMAIN logpdfLog :
                logpdfLog[i].model = Resolved(hyp.measurement, selfModel)
    /\ g_pc \notin {"off", "idle", "resolve"} =>
          g_model = Resolved(g_hyps[1].measurement, g_selfModel)
C13_WitnessPU ==
    /\ Returned
    /\ hyp.measurement.measurement_model = "hm"
    /\ selfModel = "um"
    /\ logpdfLog # <<>>
    /\ logpdfLog[1].model = "hm"
    /\ calls = MaxCalls
C13_WitnessGF ==
    /\ g_pc = "done"
    /\ g_hyps[1].measurement.measurement_model = "hm"
    /\ g_selfModel = "um"
    /\ g_model = "hm"
    /\ g_trace.steps = num_steps * MaxParticles
C13_Witness == C13_WitnessPU \/ C13_WitnessGF


\* C12: with a measurement model that has neither matrix nor jacobian, the
\* Gromov flow updaters' update ends by raising the AttributeError of the
\* first linearisation: it returns nothing, neither the flow update nor the
\* Kalman one is built, and no step is retried with another linearisation.
C12_NoLinearisationRaises ==
    (g_caps = {} /\ g_model # None /\ g_pc \notin {"idle", "resolve", "setup", "copy"}) =>
        /\ g_pc \in {"integrate", "raised"}
        /\ g_pc = "raised" => g_error = "AttributeError"
        /\ g_trace = [steps |-> 0, matrix |-> 0, jacobian |-> 0]
        /\ g_i = 1 /\ g_n = 0
        /\ g_result = <<>>
        /\ g_particle_update = <<>>
        /\ g_kalman_update = <<>>
C12_Witness ==
    /\ g_caps = {}
    /\ g_model # None
    /\ g_pc = "raised"
    /\ g_kind = "kalman"
    /\ Len(g_particles) = MaxParticles


\* ------------------------------------- claims on the pseudo-time schedule
RatLess(x, y) ==
    LET l == (x[2] \div GCD(x[2], y[2])) * y[2]
    IN  x[1] * (l \div x[2]) < y[1] * (l \div y[2])
RECURSIVE RatSum(_, _)
RatSum(a, k) == IF k = 0 THEN <<0, 1>> ELSE RatAdd(RatSum(a, k - 1), a[k])

\* the schedule as the claim states it: steps 2^n / (2^20 - 1), n = 0..19,
\* and their running sums
C14_Steps == [n \in 1..20 |-> Rat(Pow(2, n - 1), Pow(2, 20) - 1)]
C14_Times == [k \in 0..20 |-> RatSum(C14_Steps, k)]

C14_SumsToOneIncreasing ==
    /\ RatSum(C14_Steps, 20) = <<1, 1>>
    /\ C14_Times[0] = <<0, 1>>
    /\ \A k \in 0..19 : RatLess(C14_Times[k], C14_Times[k + 1])
    /\ C14_Times[20] = <<1, 1>>

\* C14: the schedule update computes has exactly 20 steps, the n-th (from 0)
\* being 2^n / (2^20 - 1); the steps sum to 1; time_steps has 21 entries
\* starting at 0, the k-th being the sum of the first k steps, strictly
\* increasing and ending at 1.
C14_ScheduleSumsToOne ==
    g_sched # <<>> =>
        /\ g_sched.steps = C14_Steps
        /\ g_sched.time_steps = C14_Times
        /\ C14_SumsToOneIncreasing
C14_Witness ==
    /\ g_sched # <<>>
    /\ g_pc = "done"
    /\ g_trace.steps = num_steps * MaxParticles


\* ------------------------------------- claims on the hybrid's two branches
\* C15: in GromovFlowKalmanParticleUpdater.update the Kalman updater gets a
\* copy of the hypothesis with the same measurement, whose prediction is the
\* Gaussian made of the mean, covariance and timestamp of the prediction's
\* particles as they were at the call (not of the migrated ones), and the
\* caller's hypothesis keeps its prediction and measurement_prediction.
C15_KalmanBranchOnPriorMoments ==
    (g_kind = "kalman" /\ g_pc \in {"kalman_update", "kalman_return", "done"}) =>
        /\ Len(g_hyps) = 2
        /\ g_hyps[2].prediction =
              [mean |-> Mean(g_pred0, g_pred.particles),
               covar |-> Covar(g_pred0, g_pred.particles),
               timestamp |-> g_pred.timestamp]
        /\ g_hyps[2].measurement = g_hyps[1].measurement
        /\ g_hyps[2].measurement_prediction = None
        /\ g_hyps[1].prediction = g_pred
        /\ g_hyps[1].measurement_prediction = "mp0"
C15_Witness ==
    /\ g_kind = "kalman"
    /\ g_pc = "done"
    /\ Len(g_particles) = MaxParticles
    /\ Mean(g_heap, g_particles) # g_hyps[2].prediction.mean
    /\ Covar(g_heap, g_particles) # g_hyps[2].prediction.covar


\* ------------------------------------- claims on the cache's results
\* the model a call with key k is to work with: its argument, else the
\* default of the updater it was called on
ModelOfCall(k) == IF k[3] = None THEN defaultModel[k[1]] ELSE k[3]

\* C16: whatever predict_measurement returns, from the cache or freshly
\* computed, was computed for the call's own prediction and model: two calls
\* with the same prediction and model get equal results, and a call naming
\* another model never gets the result cached for a different one.
C16_ResultOfOwnModel ==
    /\ \A t \in Threads :
          lastRet[t] # NoRet => lastRet[t].value.model = ModelOfCall(lastRet[t].key)
    /\ \A t, u \in Threads :
          (lastRet[t] # NoRet /\ lastRet[u] # NoRet /\ lastRet[t].key = lastRet[u].key)
              => lastRet[t].value.model = lastRet[u].value.model
    /\ \A i \in DOMAIN cache : cache[i].value.model = ModelOfCall(cache[i].key)
C16_Witness ==
    /\ lastRet[1].key = K1 /\ lastRet[1].hit /\ lastRet[1].value.model = "m1"
    /\ lastRet[2].key = K0 /\ lastRet[2].hit /\ lastRet[2].value.model = "um"
    /\ Len(cache) = 2


\* ------------------------------------- claims on the video readers
\* the frame the capture thread is waiting to put
Pending == IF run_pc = "put" THEN <<run_frame>> ELSE <<>>

\* C17: with buffer_size > 0 the buffer never holds more than buffer_size
\* frames; a put on a full buffer waits, and every frame passed to put is,
\* in order, yielded, in the buffer or still waiting to be put (none is
\* dropped); with buffer_size <= 0 a put never waits.
C17_BufferBounded ==
    /\ buffer_size > 0 => Len(buffer) <= buffer_size
    /\ handed = yielded \o buffer \o Pending
    /\ (run_pc = "put" /\ buffer_size > 0 /\ Len(buffer) >= buffer_size)
          => ~ENABLED Run_Put
    /\ (run_pc = "put" /\ buffer_size <= 0) => ENABLED Run_Put
C17_Witness ==
    /\ buffer_size = 1
    /\ Len(buffer) = 1
    /\ run_pc = "put"
    /\ yielded # <<>>
C17_WitnessUnbounded ==
    /\ buffer_size <= 0
    /\ Len(buffer) > MaxBuffer


\* C19: once the capture thread has ended, the consumer is never left
\* waiting in buffer.get() on an empty buffer (a state nothing leaves, as
\* only the capture thread puts frames): frames_gen goes on to terminate.
C19_ConsumerNeverStuck ==
    ~(run_pc = "ended" /\ gen_pc = "get" /\ buffer = <<>>)


\* ------------------------------------- claims on FreshestFrame
ReadReturned == rd_pc = "idle" /\ rd_ret # <<>>

\* C18: read(wait=True) with neither seqnumber nor timeout waits for a fresh
\* frame: it returns a sequence number greater than latestnum was when it
\* was called; with a seqnumber and no timeout it returns a number that is
\* at least seqnumber, and does not wait if latestnum had already reached
\* it (frames are numbered from 1: a seqnumber below 1 stands for 1).
C18_ReadFresh ==
    (ReadReturned /\ rd_args.wait /\ rd_args.timeout = None) =>
        /\ rd_args.seqnumber = NoSeqnumber =>
              /\ rd_ret[1].num > rd_latest0
              /\ rd_waited
        /\ rd_args.seqnumber # NoSeqnumber =>
              /\ rd_ret[1].num >= rd_args.seqnumber[1]
              /\ (rd_latest1 >= rd_args.seqnumber[1] /\ rd_latest1 >= 1) => ~rd_waited
C18_Witness ==
    /\ ReadReturned
    /\ rd_args.wait /\ rd_args.timeout = None /\ rd_args.seqnumber = NoSeqnumber
    /\ rd_latest0 >= 1
    /\ rd_latest1 > rd_latest0
    /\ rd_ret[1].num > rd_latest1
C18_WitnessSeqnumber ==
    /\ ReadReturned
    /\ rd_args.wait /\ rd_args.timeout = None /\ rd_args.seqnumber = <<1>>
    /\ rd_latest1 >= 2
    /\ ~rd_waited

\* C20: a FreshestFrame with force_frame_rate = 0 does not delay, and while
\* running is true its thread goes on reading and publishing: the thread is
\* not ended, and latestnum is the number of frames read and published.
C20_ZeroRateKeepsPublishing ==
    force_frame_rate = 0 =>
        /\ ff_error = None
        /\ running => ff_pc \in {"while", "delay", "capture", "publish"}
        /\ latestnum = IF ff_pc = "publish" THEN counter - 1 ELSE counter


\* ------------------------------------- claims on what the consumers get
\* C21: frames_gen yields the frames passed to the buffer once each and in
\* the order they were put, and when it stops it has yielded them all,
\* those that were in the buffer when the capture thread ended included.
C21_AllFramesYielded ==
    /\ Len(yielded) <= Len(handed)
    /\ yielded = SubSeq(handed, 1, Len(yielded))
    /\ gen_pc = "stopped" => (buffer = <<>> /\ yielded = handed)

\* C22: a read(wait=True) without timeout is never left waiting for a
\* sequence number that can no longer come: once the thread has left run
\* (running set to False by release(), or an exception) latestnum stays as
\* it is, so a caller waiting for more at that point waits forever.
C22_ReadNeverStuck ==
    ~(/\ rd_pc = "waiting"
      /\ rd_args.timeout = None
      /\ ff_pc \in {"ended", "dead"}
      /\ latestnum < rd_seqnumber)


\* ------------------------------------- claims on the end of the video
\* the capture thread's read finds the video run out, and goes on
ReadsAtEnd == run_pc = "read" /\ stream_left = 0 /\ run_pc' # "read"

\* C23 as stated: once the video source has no more frames the OpenCV
\* reader's capture thread ends, with run_async False and True alike.
C23_EndsWhenOutOfFrames ==
    [][(reader \in {"opencv", "opencv_async"} /\ ReadsAtEnd)
          => (run_pc' = "ended" /\ handed' = handed)]_vars

\* C23 amended: with run_async=False the capture thread ends when the video
\* has run out, putting nothing more; with run_async=True it does not: it
\* puts a placeholder frame for each further read if output_opts has
\* 'colourTransform' (nothing otherwise), and ends only when the stream is
\* no longer open or an exception leaves _run.
C23_EndsOnlyWithoutFreshestFrame ==
    [][/\ (reader = "opencv" /\ ReadsAtEnd)
            => (run_pc' = "ended" /\ handed' = handed)
       /\ (reader = "opencv_async" /\ ReadsAtEnd) =>
            IF colourTransform
            THEN run_pc' = "put" /\ run_frame' = BlankFrame
                 /\ handed' = Append(handed, BlankFrame)
            ELSE run_pc' = "while" /\ handed' = handed
       /\ (reader = "opencv_async" /\ run_pc # "ended" /\ run_pc' = "ended")
            => (~stream_open \/ run_error' # None)]_vars
C23_Witness ==
    /\ reader = "opencv_async"
    /\ colourTransform
    /\ stream_left = 0
    /\ run_pc = "put"
    /\ run_frame = BlankFrame
    /\ Len(handed) > MaxFrames
C23_WitnessSync ==
    /\ reader = "opencv"
    /\ run_pc = "ended"
    /\ run_error = None
    /\ stream_open
    /\ Len(handed) = MaxFrames


\* ------------------------------------- claims on a replaced default model
\* C24: whenever a predict_measurement call without a measurement_model
\* argument returns, what it returns was computed with the model that is
\* the updater's measurement_model at that moment, also after the model was
\* replaced between two calls with the same state_prediction.
C24_ReturnsCurrentDefault ==
    [][\A t \in Threads :
          (lastRet'[t] # lastRet[t] /\ lastRet'[t] # NoRet /\ lastRet'[t].key[3] = None)
             => lastRet'[t].value.model = defaultModel'[lastRet'[t].key[1]]]_vars

====
